---- MODULE Spec2Model ----
(***************************************************************************)
(* Model of the english-learning-app backend: the quiz-article cache       *)
(* (routes/quiz.ts + services/llmService.ts), the progress routes          *)
(* (routes/progress.ts) and the client's local bucket update               *)
(* (utils/storage.ts).                                                     *)
(*                                                                         *)
(* Express handlers run to completion on Node's single thread and          *)
(* better-sqlite3 is synchronous, so a handler is atomic up to its first   *)
(* await.  The only await that yields with state still to be written is    *)
(* `await generateArticleWithLLM(words)`: a /generate request is therefore *)
(* two steps (up to the provider call, and from the provider's answer to   *)
(* the response), and every other handler is one step.                     *)
(***************************************************************************)
EXTENDS Integers, Sequences, FiniteSets, Bags, TLC

(***************************************************************************)
(* Bounds of the model.                                                    *)
(***************************************************************************)
MaxTicks == 2          \* clock advances explored
MaxAccess == 1         \* cap on cached_articles.access_count
MaxQuizResults == 3    \* quiz answers submitted in a run
MaxDays == 1           \* midnights passed while the progress routes run
MaxWords == 3          \* words handed to generateFallbackArticle
MaxBatches == 4        \* batches the population script runs

(***************************************************************************)
(* Program constants.                                                      *)
(***************************************************************************)
CACHE_TTL_SECONDS == 3600        \* memoryCache stdTTL default
QUIZ_CACHE_TTL_SECONDS == 86400  \* cleanupOldCache maxAge default
MAX_CACHED_ARTICLES == 2         \* env MAX_CACHED_ARTICLES (default 1000), set to 2 here
Comma == 44                      \* ',' the separator of join(',')
DOCUMENTED_TTL_SECONDS == 604800 \* "TTL: 7 days" of the README's database cache

(***************************************************************************)
(* Word identifiers are strings; a string is the sequence of its UTF-16    *)
(* code units.  "1", "10", "2", and "9" (an id no word has).               *)
(***************************************************************************)
IdA == <<49>>
IdB == <<49, 48>>
IdC == <<50>>
IdX == <<57>>

\* words table (id, definition); the definition is kept as the branch of
\* generateFallbackArticle its text selects (1..8, 9 = generic sentence).
\* Rows are listed in primary-key order, the order in which SQLite walks
\* them for `WHERE id IN (...)`.
WordsTable == << [id |-> IdA, def |-> 3], [id |-> IdB, def |-> 2], [id |-> IdC, def |-> 9] >>

Range(s) == {s[i] : i \in 1..Len(s)}

\* String comparison of Array.prototype.sort() without comparator:
\* code unit by code unit, a proper prefix first.
LtStr(a, b) ==
    \E i \in 1..Len(b) :
        /\ i <= Len(a) + 1
        /\ \A j \in 1..(i - 1) : a[j] = b[j]
        /\ (i = Len(a) + 1 \/ a[i] < b[i])

RECURSIVE InsertSorted(_, _)
InsertSorted(x, s) ==
    IF s = <<>> THEN <<x>>
    ELSE IF LtStr(x, s[1]) THEN <<x>> \o s
    ELSE <<s[1]>> \o InsertSorted(x, Tail(s))

\* ids.sort()
RECURSIVE SortIds(_)
SortIds(s) ==
    IF s = <<>> THEN <<>>
    ELSE InsertSorted(s[Len(s)], SortIds(SubSeq(s, 1, Len(s) - 1)))

\* ids.join(',')
RECURSIVE Join(_)
Join(s) ==
    IF s = <<>> THEN <<>>
    ELSE IF Len(s) = 1 THEN s[1]
    ELSE s[1] \o <<Comma>> \o Join(Tail(s))

\* A key builder that leaves out the sort: the ids joined in the order given.
CacheKeyUnsorted(ws) == Join([i \in 1..Len(ws) |-> ws[i].id])

\* const cacheKey = words.map(w => w.id).sort().join(',')
CacheKey(ws) == Join(SortIds([i \in 1..Len(ws) |-> ws[i].id]))

\* SELECT id, word, definition FROM words WHERE id IN (...wordIds)
SelectWordsIn(wordIds) == SelectSeq(WordsTable, LAMBDA w : w.id \in Range(wordIds))

VARIABLES
    clock,            \* time passed, as counts of 1 s, 3600 s and 86400 s advances
    apiKey,           \* whether OPENAI_API_KEY is set in the environment
    openaiClient,     \* whether the lazily built OpenAI client exists
    memoryCache,      \* NodeCache: key -> [v: article, t: expiry time]
    cached_articles,  \* table cached_articles, rows in rowid order
    pending,          \* /generate requests awaiting the provider's answer
    resp,             \* the response of /generate sent in the latest step, if any,
                      \* with the rows its cleanup deleted
    lastGen,          \* the latest request whose article was generated and stored
    keyIn,            \* SpecKey: two orderings of one word set handed to generateQuizArticle;
                      \* SpecFallback: the words handed to generateFallbackArticle
    keyOut,           \* SpecKey: the two cache keys computed from them;
                      \* SpecFallback: the text returned and its article
    users,            \* table users (the ids)
    user_words,       \* table user_words, rows in rowid order
    quiz_results,     \* table quiz_results, a bag of rows
    daily_progress,   \* table daily_progress, rows in rowid order
    applied,          \* per word, the quiz results answered with a new bucket
    asyncStorage,     \* the client's AsyncStorage: words, quizResults, dailyWords
    presp,            \* the response of the progress / quiz-words request of the latest step
    populate,         \* scripts/populateDatabase: the state of its batch loop
    quiz              \* QuizScreen: its React state and what its last handler did

cacheVars == <<apiKey, openaiClient, memoryCache, cached_articles, pending, resp, lastGen>>
keyVars == <<keyIn, keyOut>>
toolVars == <<populate, quiz>>
progressVars == <<users, user_words, quiz_results, daily_progress, applied, asyncStorage, presp>>
vars == <<clock, apiKey, openaiClient, memoryCache, cached_articles, pending, resp, lastGen,
          keyIn, keyOut,
          users, user_words, quiz_results, daily_progress, applied, asyncStorage, presp,
          populate, quiz>>

Now == clock.s + clock.h * CACHE_TTL_SECONDS + clock.d * QUIZ_CACHE_TTL_SECONDS


(***************************************************************************)
(* Articles.  An article is kept as who wrote it, which of the provider's  *)
(* possible replies it is, how many "______" markers it holds and, for the *)
(* fallback text, the sentence chosen for each word.                       *)
(***************************************************************************)
NoArticle == [gen |-> "none", v |-> 0, blanks |-> 0, tpl |-> <<>>]

\* The provider's replies: reply 1 holds one marker per word, reply 2 one more.
LLMReplies == {1, 2}
LLMArticle(v, ws) ==
    [gen |-> "llm", v |-> v, blanks |-> IF v = 1 THEN Len(ws) ELSE Len(ws) + 1, tpl |-> <<>>]

\* generateFallbackArticle.  A word's def is the first branch of the
\* definition.includes(...) chain its definition takes, 9 being the final
\* else.  A text is kept as its pieces, split around the "______" markers.
Blank == "______"
FallbackBranches == 1..9

\* a variant of the sentences whose generic sentence names no marker
FallbackSentenceUnmarked(d) ==
    IF d = 9 THEN <<"The concept is essential in this context.">>
    ELSE <<"The ", Blank, " nature of the event made it all the more special.">>

FallbackSentence(d) ==
    CASE d = 1 -> <<"The ", Blank, " nature of the event made it all the more special.">>
      [] d = 2 -> <<"Technology has become ", Blank, " in our daily lives.">>
      [] d = 3 -> <<"Finding that solution was pure ", Blank, ".">>
      [] d = 4 -> <<"Her ", Blank, " presentation captivated the entire audience.">>
      [] d = 5 -> <<"The community proved to be remarkably ", Blank, " after the crisis.">>
      [] d = 6 -> <<"His ", Blank, " approach ensured nothing was overlooked.">>
      [] d = 7 -> <<"The instructions were intentionally ", Blank,
                    ", leaving room for interpretation.">>
      [] d = 8 -> <<"We need a more ", Blank, " solution to this problem.">>
      [] OTHER -> <<"The concept of ", Blank, " is essential in this context.">>

\* sentences.join(' ')
RECURSIVE JoinSentences(_, _)
JoinSentences(ws, i) ==
    IF i > Len(ws) THEN <<>>
    ELSE (IF i > 1 THEN <<" ">> ELSE <<>>) \o FallbackSentence(ws[i].def)
         \o JoinSentences(ws, i + 1)
FallbackText(ws) == JoinSentences(ws, 1)

\* (article.match(/______/g) || []).length
CountBlanks(text) == Cardinality({i \in 1..Len(text) : text[i] = Blank})

generateFallbackArticle(ws) ==
    [gen |-> "fallback", v |-> 0, blanks |-> CountBlanks(FallbackText(ws)),
     tpl |-> [i \in 1..Len(ws) |-> ws[i].def]]

(***************************************************************************)
(* memoryCache (node-cache).  get() of an expired key deletes it and       *)
(* misses; set() throws ECACHEFULL when maxKeys keys are stored, whether   *)
(* or not the key is among them; the stored keys include the expired ones  *)
(* not yet deleted.                                                        *)
(***************************************************************************)
EmptyCache == [k \in {} |-> NoArticle]
Expired(e) == e.t < Now
MemLive(m, k) == k \in DOMAIN m /\ ~Expired(m[k])
MemDel(m, k) == [x \in (DOMAIN m) \ {k} |-> m[x]]
\* the cache after memoryCache.get(k)
MemAfterGet(m, k) == IF k \in DOMAIN m /\ Expired(m[k]) THEN MemDel(m, k) ELSE m
MemFull(m) == Cardinality(DOMAIN m) >= MAX_CACHED_ARTICLES
MemSet(m, k, a) ==
    [x \in (DOMAIN m) \cup {k} |->
        IF x = k THEN [v |-> a, t |-> Now + CACHE_TTL_SECONDS] ELSE m[x]]

(***************************************************************************)
(* cached_articles.  The table is the sequence of its rows in rowid order. *)
(* A lookup by word_ids walks idx_cached_articles_word_ids and so yields   *)
(* the matching row of lowest rowid; ORDER BY keeps rowid order among      *)
(* equal last_accessed.                                                    *)
(***************************************************************************)
DbHas(T, k) == \E i \in 1..Len(T) : T[i].word_ids = k
\* SELECT article_text FROM cached_articles WHERE word_ids = ?  (.get)
DbGet(T, k) ==
    T[CHOOSE i \in 1..Len(T) :
        /\ T[i].word_ids = k
        /\ \A j \in 1..(i - 1) : T[j].word_ids # k].article_text
\* a variant of the UPDATE that leaves last_accessed alone
DbTouchCountOnly(T, k) ==
    [i \in 1..Len(T) |->
        IF T[i].word_ids = k THEN [T[i] EXCEPT !.access_count = @ + 1] ELSE T[i]]
\* UPDATE cached_articles SET access_count = access_count + 1, last_accessed = now WHERE word_ids = ?
DbTouch(T, k) ==
    [i \in 1..Len(T) |->
        IF T[i].word_ids = k
        THEN [T[i] EXCEPT !.access_count = @ + 1, !.last_accessed = Now]
        ELSE T[i]]
\* INSERT INTO cached_articles (id, word_ids, article_text) VALUES (?, ?, ?)
DbInsert(T, k, a) ==
    Append(T, [word_ids |-> k, article_text |-> a, access_count |-> 0, last_accessed |-> Now])

RECURSIVE KeepRows(_, _, _)
KeepRows(T, keep, i) ==
    IF i > Len(T) THEN <<>>
    ELSE (IF i \in keep THEN <<T[i]>> ELSE <<>>) \o KeepRows(T, keep, i + 1)

\* a variant of the age DELETE that also removes the rows exactly at the cutoff
DeleteAtOrOlderThan(T, cutoff) == SelectSeq(T, LAMBDA row : row.last_accessed > cutoff)

\* DELETE FROM cached_articles WHERE last_accessed < cutoffTime
DeleteOlderThan(T, cutoff) == SelectSeq(T, LAMBDA row : ~(row.last_accessed < cutoff))

\* a variant of the trim that orders by last_accessed DESC
DeleteNewest(T, toDelete) ==
    LET before(i) == Cardinality({j \in 1..Len(T) :
                        \/ T[j].last_accessed > T[i].last_accessed
                        \/ (T[j].last_accessed = T[i].last_accessed /\ j > i)})
    IN  KeepRows(T, {i \in 1..Len(T) : before(i) >= toDelete}, 1)

\* DELETE ... WHERE id IN (SELECT id ... ORDER BY last_accessed ASC LIMIT toDelete)
DeleteOldest(T, toDelete) ==
    LET before(i) == Cardinality({j \in 1..Len(T) :
                        \/ T[j].last_accessed < T[i].last_accessed
                        \/ (T[j].last_accessed = T[i].last_accessed /\ j < i)})
    IN  KeepRows(T, {i \in 1..Len(T) : before(i) >= toDelete}, 1)

cleanupOldCache(T) ==
    LET aged == DeleteOlderThan(T, Now - QUIZ_CACHE_TTL_SECONDS)
    IN  IF Len(aged) > MAX_CACHED_ARTICLES
        THEN DeleteOldest(aged, Len(aged) - MAX_CACHED_ARTICLES)
        ELSE aged

\* the rows the two DELETE statements of cleanupOldCache removed from T
RowBag(T) == [x \in Range(T) |-> Cardinality({i \in 1..Len(T) : T[i] = x})]
Evicted(T) == BagToSet(RowBag(T) (-) RowBag(cleanupOldCache(T)))


(***************************************************************************)
(* POST /api/quiz/generate                                                 *)
(***************************************************************************)
Slots == {1, 2}
Free == <<>>

\* The wordIds arrays the clients send: one word set in two orders, a second
\* word set, an empty array, an array with an id no word has and an array
\* that names one word twice.
RequestWordIds ==
    { <<IdA, IdB, IdC>>, <<IdC, IdB, IdA>>, <<IdA>>, <<>>, <<IdA, IdX>>, <<IdA, IdA>> }

NoGen == [wordIds |-> <<>>, article |-> NoArticle]
NoResp == [wordIds |-> <<>>, status |-> 0, article |-> NoArticle, via |-> "none", llm |-> "none",
           evicted |-> {}]
Response(q, status, a, via, llm) ==
    [wordIds |-> q, status |-> status, article |-> a, via |-> via, llm |-> llm, evicted |-> {}]


\* a variant of the checks that never looks the ids up in the words table
ValidRequestNoLookup(q, hasUser) ==
    /\ q # <<>>
    /\ hasUser

\* the checks of the route before generateQuizArticle is called
ValidRequest(q, hasUser) ==
    /\ q # <<>>
    /\ hasUser
    /\ Len(SelectWordsIn(q)) = Len(q)

KeyOf(q) == CacheKey(SelectWordsIn(q))

\* the slot a new in-flight request takes
FreeSlot == CHOOSE r \in Slots : pending[r] = Free /\ \A x \in Slots : x < r => pending[x] # Free

\* res.status(400): wordIds missing or empty, userId missing, some id unknown or repeated
GenerateBadRequest(q, hasUser) ==
    /\ ~ValidRequest(q, hasUser)
    /\ resp' = Response(q, 400, NoArticle, "none", "none")
    /\ UNCHANGED <<clock, apiKey, openaiClient, memoryCache, cached_articles, pending, lastGen>>
    /\ UNCHANGED <<keyVars, toolVars, progressVars>>

\* a variant of the memory hit that also updates the row's access statistics
GenerateMemoryHitCounting(q) ==
    /\ ValidRequest(q, TRUE)
    /\ MemLive(memoryCache, KeyOf(q))
    /\ resp' = Response(q, 200, memoryCache[KeyOf(q)].v, "memory", "none")
    /\ cached_articles' = DbTouch(cached_articles, KeyOf(q))
    /\ UNCHANGED <<clock, apiKey, openaiClient, memoryCache, pending, lastGen>>
    /\ UNCHANGED <<keyVars, toolVars, progressVars>>

\* a variant of the memory hit that also runs the eviction pass
GenerateMemoryHitEvicting(q) ==
    /\ ValidRequest(q, TRUE)
    /\ MemLive(memoryCache, KeyOf(q))
    /\ resp' = Response(q, 200, memoryCache[KeyOf(q)].v, "memory", "none")
    /\ cached_articles' = DeleteOldest(cached_articles, 1)
    /\ UNCHANGED <<clock, apiKey, openaiClient, memoryCache, pending, lastGen>>
    /\ UNCHANGED <<keyVars, toolVars, progressVars>>

\* memoryCache.get(cacheKey) hits
GenerateMemoryHit(q) ==
    /\ ValidRequest(q, TRUE)
    /\ MemLive(memoryCache, KeyOf(q))
    /\ resp' = Response(q, 200, memoryCache[KeyOf(q)].v, "memory", "none")
    /\ UNCHANGED <<clock, apiKey, openaiClient, memoryCache, cached_articles, pending, lastGen>>
    /\ UNCHANGED <<keyVars, toolVars, progressVars>>

\* memory miss, the table holds the key: the access stats are updated and the
\* text is put into memoryCache; when memoryCache is full set() throws after
\* the UPDATE and the error handler answers 500.
GenerateDatabaseHit(q) ==
    LET k == KeyOf(q)
        m == MemAfterGet(memoryCache, k)
        text == DbGet(cached_articles, k)
    IN  /\ ValidRequest(q, TRUE)
        /\ ~MemLive(memoryCache, k)
        /\ DbHas(cached_articles, k)
        /\ \A i \in 1..Len(cached_articles) :
              cached_articles[i].word_ids = k => cached_articles[i].access_count < MaxAccess
        /\ cached_articles' = DbTouch(cached_articles, k)
        /\ IF ~MemFull(m)
           THEN /\ memoryCache' = MemSet(m, k, text)
                /\ resp' = Response(q, 200, text, "database", "none")
           ELSE /\ memoryCache' = m
                /\ resp' = Response(q, 500, NoArticle, "cachefull", "none")
        /\ UNCHANGED <<clock, apiKey, openaiClient, pending, lastGen>>
        /\ UNCHANGED <<keyVars, toolVars, progressVars>>

\* both caches miss: generateArticleWithLLM starts.  getOpenAIClient() runs
\* before the try block; with no client yet and no API key getApiKey throws.
GenerateNoClient(q) ==
    LET k == KeyOf(q)
    IN  /\ ValidRequest(q, TRUE)
        /\ ~MemLive(memoryCache, k)
        /\ ~DbHas(cached_articles, k)
        /\ ~openaiClient /\ ~apiKey
        /\ memoryCache' = MemAfterGet(memoryCache, k)
        /\ resp' = Response(q, 500, NoArticle, "error", "noclient")
        /\ UNCHANGED <<clock, apiKey, openaiClient, cached_articles, pending, lastGen>>
        /\ UNCHANGED <<keyVars, toolVars, progressVars>>

\* both caches miss and the client exists or can be built: the request to
\* the provider is sent and the handler awaits it.
GenerateMiss(q) ==
    LET k == KeyOf(q)
    IN  /\ ValidRequest(q, TRUE)
        /\ ~MemLive(memoryCache, k)
        /\ ~DbHas(cached_articles, k)
        /\ openaiClient \/ apiKey
        /\ \E r \in Slots : pending[r] = Free
        /\ memoryCache' = MemAfterGet(memoryCache, k)
        /\ openaiClient' = TRUE
        /\ pending' = [pending EXCEPT ![FreeSlot] = <<[wordIds |-> q, words |-> SelectWordsIn(q)]>>]
        /\ resp' = NoResp
        /\ UNCHANGED <<clock, apiKey, cached_articles, lastGen>>
        /\ UNCHANGED <<keyVars, toolVars, progressVars>>

\* generateQuizArticle after the await: store in both caches, clean up, return.
StoreAndReturn(r, article, llm) ==
    LET rq == pending[r][1]
        k == CacheKey(rq.words)
    IN  /\ pending' = [pending EXCEPT ![r] = Free]
        /\ \/ /\ ~MemFull(memoryCache)
              /\ memoryCache' = MemSet(memoryCache, k, article)
              /\ cached_articles' = cleanupOldCache(DbInsert(cached_articles, k, article))
              /\ resp' = [Response(rq.wordIds, 200, article, "generated", llm)
                            EXCEPT !.evicted = Evicted(DbInsert(cached_articles, k, article))]
              /\ lastGen' = [wordIds |-> rq.wordIds, article |-> article]
           \/ /\ MemFull(memoryCache)
              /\ UNCHANGED <<memoryCache, cached_articles, lastGen>>
              /\ resp' = Response(rq.wordIds, 500, NoArticle, "cachefull", llm)
        /\ UNCHANGED <<clock, apiKey, openaiClient>>
        /\ UNCHANGED <<keyVars, toolVars, progressVars>>

\* the provider answers with a non-empty text
LLMReturns(r, v) ==
    /\ pending[r] # Free
    /\ StoreAndReturn(r, LLMArticle(v, pending[r][1].words), "ok")

\* the provider call rejects (error, timeout) or its content is empty:
\* the catch block returns the fallback article
LLMFails(r) ==
    /\ pending[r] # Free
    /\ StoreAndReturn(r, generateFallbackArticle(pending[r][1].words), "failed")

(***************************************************************************)
(* The database failing under generateQuizArticle.  A better-sqlite3       *)
(* statement that cannot run (file locked, disk error, database closed)    *)
(* throws; generateQuizArticle has no try block, so the error rejects its  *)
(* promise and the route hands it to next(error), which answers 500.       *)
(***************************************************************************)
\* memory miss, then SELECT article_text ... .get(cacheKey) throws
GenerateDbReadFails(q) ==
    LET k == KeyOf(q)
    IN  /\ ValidRequest(q, TRUE)
        /\ ~MemLive(memoryCache, k)
        /\ memoryCache' = MemAfterGet(memoryCache, k)
        /\ resp' = Response(q, 500, NoArticle, "dbread", "none")
        /\ UNCHANGED <<clock, apiKey, openaiClient, cached_articles, pending, lastGen>>
        /\ UNCHANGED <<keyVars, toolVars, progressVars>>

\* the row is found, then UPDATE cached_articles SET access_count ... throws
GenerateDbTouchFails(q) ==
    LET k == KeyOf(q)
    IN  /\ ValidRequest(q, TRUE)
        /\ ~MemLive(memoryCache, k)
        /\ DbHas(cached_articles, k)
        /\ memoryCache' = MemAfterGet(memoryCache, k)
        /\ resp' = Response(q, 500, NoArticle, "dbwrite", "none")
        /\ UNCHANGED <<clock, apiKey, openaiClient, cached_articles, pending, lastGen>>
        /\ UNCHANGED <<keyVars, toolVars, progressVars>>

\* after the await: memoryCache.set succeeds, then INSERT INTO cached_articles throws
StoreDbInsertFails(r, article, llm) ==
    LET rq == pending[r][1]
        k == CacheKey(rq.words)
    IN  /\ pending[r] # Free
        /\ ~MemFull(memoryCache)
        /\ pending' = [pending EXCEPT ![r] = Free]
        /\ memoryCache' = MemSet(memoryCache, k, article)
        /\ resp' = Response(rq.wordIds, 500, NoArticle, "dbwrite", llm)
        /\ UNCHANGED <<clock, apiKey, openaiClient, cached_articles, lastGen>>
        /\ UNCHANGED <<keyVars, toolVars, progressVars>>

(***************************************************************************)
(* routes/progress.ts and GET /api/quiz/words/:userId.  better-sqlite3 is  *)
(* synchronous and these handlers never await between their statements,   *)
(* so each request runs as one step; concurrent requests interleave as    *)
(* whole steps.                                                            *)
(***************************************************************************)
UserIds == {"u1"}
ProgressWordIds == {IdA, IdB, IdC, IdX}
\* the words the quizzes ask for; IdC is saved but never asked
QuizWordIds == {IdA, IdB, IdX}
Null == <<>>

\* new Date().toISOString().split('T')[0]: the UTC calendar day
SecondsPerDay == 86400
Today == Now \div SecondsPerDay

\* the request answered by the latest step with its response: the route,
\* the limit asked for (quiz-words), the status, newBucket and words
NoPResp == [op |-> "none", limit |-> 0, status |-> 0, newBucket |-> "null", words |-> <<>>]
PResponse(op, status, b, ws) ==
    [op |-> op, limit |-> Len(ws), status |-> status, newBucket |-> b, words |-> ws]

WordExists(w) == \E i \in 1..Len(WordsTable) : WordsTable[i].id = w

\* SELECT * FROM user_words WHERE user_id = ? AND word_id = ?
Saved(T, u, w) == \E i \in 1..Len(T) : T[i].user_id = u /\ T[i].word_id = w
UserWordIndex(T, u, w) == CHOOSE i \in 1..Len(T) : T[i].user_id = u /\ T[i].word_id = w

\* a variant of the inserted row that starts in 'familiar'
NewUserWordFamiliar(u, w) ==
    [user_id |-> u, word_id |-> w, bucket |-> "familiar", last_reviewed |-> Null,
     review_count |-> 0, correct_count |-> 0, incorrect_count |-> 0]

\* INSERT INTO user_words (id, user_id, word_id, bucket) with the column defaults
NewUserWord(u, w) ==
    [user_id |-> u, word_id |-> w, bucket |-> "needs work", last_reviewed |-> Null,
     review_count |-> 0, correct_count |-> 0, incorrect_count |-> 0]

\* a variant that inserts a new row for every event
DailyBumpInserting(T, u, field) ==
    Append(T, [[user_id |-> u, date |-> Today, words_saved |-> 0,
                quizzes_completed |-> 0, words_reviewed |-> 0] EXCEPT ![field] = 1])

\* a variant of the daily update that always counts under words_saved
DailyBumpWordsSaved(T, u, field) ==
    IF \E i \in 1..Len(T) : T[i].user_id = u /\ T[i].date = Today
    THEN LET i == CHOOSE j \in 1..Len(T) : T[j].user_id = u /\ T[j].date = Today
         IN  [T EXCEPT ![i].words_saved = @ + 1]
    ELSE Append(T, [user_id |-> u, date |-> Today, words_saved |-> 1,
                    quizzes_completed |-> 0, words_reviewed |-> 0])

\* the daily_progress row of (user, today) gets field + 1, or is inserted
\* with field = 1 and the other counters at their default 0
DailyBump(T, u, field) ==
    IF \E i \in 1..Len(T) : T[i].user_id = u /\ T[i].date = Today
    THEN LET i == CHOOSE j \in 1..Len(T) :
                     /\ T[j].user_id = u /\ T[j].date = Today
                     /\ \A h \in 1..(j - 1) : ~(T[h].user_id = u /\ T[h].date = Today)
         IN  [T EXCEPT ![i][field] = @ + 1]
    ELSE Append(T, [[user_id |-> u, date |-> Today, words_saved |-> 0,
                     quizzes_completed |-> 0, words_reviewed |-> 0] EXCEPT ![field] = 1])

\* table quiz_results as the bag of its rows <<user_id, word_id, is_correct>>;
\* the id and created_at columns, random and never read back, are left out
NoQuizResults == EmptyBag

\* the quiz answers the backend has stored so far
AnswersSoFar == BagCardinality(quiz_results)

\* POST /api/progress/user: create the user of the device or touch last_active
PostUser(u) ==
    /\ users' = users \cup {u}
    /\ presp' = PResponse("user", 200, "null", <<>>)
    /\ UNCHANGED <<user_words, quiz_results, daily_progress, applied, asyncStorage>>
    /\ UNCHANGED <<clock, cacheVars, keyVars, toolVars>>

\* POST /api/progress/save-word
PostSaveWord(u, w) ==
    /\ IF ~WordExists(w)
       THEN /\ presp' = PResponse("save-word", 404, "null", <<>>)
            /\ UNCHANGED <<user_words, daily_progress>>
       ELSE IF Saved(user_words, u, w)
       THEN /\ presp' = PResponse("save-word", 200, "already", <<>>)
            /\ UNCHANGED <<user_words, daily_progress>>
       ELSE IF u \notin users
       THEN \* FOREIGN KEY (user_id) REFERENCES users(id) fails, next(error)
            /\ presp' = PResponse("save-word", 500, "null", <<>>)
            /\ UNCHANGED <<user_words, daily_progress>>
       ELSE /\ user_words' = Append(user_words, NewUserWord(u, w))
            /\ daily_progress' = DailyBump(daily_progress, u, "words_saved")
            /\ presp' = PResponse("save-word", 200, "needs work", <<>>)
    /\ UNCHANGED <<users, quiz_results, applied, asyncStorage>>
    /\ UNCHANGED <<clock, cacheVars, keyVars, toolVars>>

\* a promotion that jumps from 'needs work' straight to 'well known'
newBucketSkipping(bucket, isCorrect) ==
    IF isCorrect THEN "well known" ELSE "needs work"

\* the bucket computed by POST /quiz-result
newBucket(bucket, isCorrect) ==
    IF isCorrect
    THEN IF bucket = "needs work" THEN "familiar"
         ELSE IF bucket = "familiar" THEN "well known"
         ELSE bucket
    ELSE "needs work"

\* an UPDATE that counts a review only for a correct answer
UpdateUserWordLosing(row, bucket, isCorrect) ==
    [row EXCEPT !.bucket = bucket,
                !.last_reviewed = <<Now>>,
                !.review_count = @ + (IF isCorrect THEN 1 ELSE 0),
                !.correct_count = @ + (IF isCorrect THEN 1 ELSE 0),
                !.incorrect_count = @ + (IF isCorrect THEN 0 ELSE 1)]

\* UPDATE user_words SET bucket = ?, last_reviewed = now, review_count =
\* review_count + 1, correct_count = correct_count + ?, incorrect_count =
\* incorrect_count + ? WHERE id = ?
UpdateUserWord(row, bucket, isCorrect) ==
    [row EXCEPT !.bucket = bucket,
                !.last_reviewed = <<Now>>,
                !.review_count = @ + 1,
                !.correct_count = @ + (IF isCorrect THEN 1 ELSE 0),
                !.incorrect_count = @ + (IF isCorrect THEN 0 ELSE 1)]

\* POST /api/progress/quiz-result
PostQuizResult(u, w, c) ==
    /\ AnswersSoFar < MaxQuizResults
    /\ IF u \notin users
       THEN /\ presp' = PResponse("quiz-result", 404, "null", <<>>)
            /\ UNCHANGED <<user_words, quiz_results, daily_progress, applied>>
       ELSE IF ~WordExists(w)
       THEN /\ presp' = PResponse("quiz-result", 404, "null", <<>>)
            /\ UNCHANGED <<user_words, quiz_results, daily_progress, applied>>
       ELSE /\ quiz_results' = quiz_results (+) SetToBag({<<u, w, c>>})
            /\ IF Saved(user_words, u, w)
               THEN LET i == UserWordIndex(user_words, u, w)
                        b == newBucket(user_words[i].bucket, c)
                    IN  /\ user_words' = [user_words EXCEPT ![i] = UpdateUserWord(@, b, c)]
                        /\ daily_progress' = DailyBump(daily_progress, u, "words_reviewed")
                        /\ applied' = [applied EXCEPT ![w] = @ + 1]
                        /\ presp' = PResponse("quiz-result", 200, b, <<>>)
               ELSE /\ presp' = PResponse("quiz-result", 200, "null", <<>>)
                    /\ UNCHANGED <<user_words, daily_progress, applied>>
    /\ UNCHANGED <<users, asyncStorage>>
    /\ UNCHANGED <<clock, cacheVars, keyVars, toolVars>>

\* a ranking that puts 'well known' first
BucketRankReversed(bucket) ==
    CASE bucket = "needs work" -> 3
      [] bucket = "familiar" -> 2
      [] bucket = "well known" -> 1

\* ORDER BY CASE uw.bucket WHEN 'needs work' THEN 1 WHEN 'familiar' THEN 2
\* WHEN 'well known' THEN 3 END
BucketRank(bucket) ==
    CASE bucket = "needs work" -> 1
      [] bucket = "familiar" -> 2
      [] bucket = "well known" -> 3

\* uw.last_reviewed ASC NULLS FIRST
LastReviewedBefore(a, b) ==
    \/ a = Null /\ b # Null
    \/ a # Null /\ b # Null /\ a[1] < b[1]

QuizOrderBefore(x, y) ==
    \/ BucketRank(x.bucket) < BucketRank(y.bucket)
    \/ /\ BucketRank(x.bucket) = BucketRank(y.bucket)
       /\ LastReviewedBefore(x.last_reviewed, y.last_reviewed)

\* the sorter keeps rows that compare equal in scan (rowid) order
RECURSIVE InsertRow(_, _)
InsertRow(x, s) ==
    IF s = <<>> THEN <<x>>
    ELSE IF QuizOrderBefore(x, Head(s)) THEN <<x>> \o s
    ELSE <<Head(s)>> \o InsertRow(x, Tail(s))

RECURSIVE OrderRows(_)
OrderRows(s) ==
    IF s = <<>> THEN <<>>
    ELSE InsertRow(s[Len(s)], OrderRows(SubSeq(s, 1, Len(s) - 1)))

Limit(s, n) == SubSeq(s, 1, IF n < Len(s) THEN n ELSE Len(s))

\* the SELECT of GET /api/quiz/words/:userId and the formatting of its rows
SelectQuizWords(T, u, maxWords) ==
    LET mine == SelectSeq(T, LAMBDA r : r.user_id = u /\ WordExists(r.word_id))
        rows == Limit(OrderRows(mine), maxWords)
    IN  [i \in 1..Len(rows) |->
            [id |-> rows[i].word_id, bucket |-> rows[i].bucket,
             lastReviewed |-> rows[i].last_reviewed]]

QuizLimits == {1, 3}

\* GET /api/quiz/words/:userId?limit=n
GetQuizWords(u, maxWords) ==
    /\ presp' = [PResponse("quiz-words", 200, "null", SelectQuizWords(user_words, u, maxWords))
                     EXCEPT !.limit = maxWords]
    /\ UNCHANGED <<users, user_words, quiz_results, daily_progress, applied, asyncStorage>>
    /\ UNCHANGED <<clock, cacheVars, keyVars, toolVars>>

(***************************************************************************)
(* utils/storage.ts: the client's fallback when the backend call fails.    *)
(* The screens await each call before the next, so each call is a step.    *)
(***************************************************************************)
LocalWordIds == {IdA}
NoStorage == [words |-> <<>>, quizResults |-> <<>>, dailyWords |-> <<>>]
LocalIndex(ws, w) == CHOOSE i \in 1..Len(ws) : ws[i].id = w
LocalHas(ws, w) == \E i \in 1..Len(ws) : ws[i].id = w

\* saveWord(word): replace the stored word of that id or push; a new word is
\* counted in the daily list, which keeps the last 7 days
MaxDailyWords == 7
StorageSaveWord(st, word) ==
    IF LocalHas(st.words, word.id)
    THEN [st EXCEPT !.words = [@ EXCEPT ![LocalIndex(st.words, word.id)] = word]]
    ELSE LET dw == st.dailyWords
             hit == \E i \in 1..Len(dw) : dw[i].date = Today
             di == CHOOSE i \in 1..Len(dw) : dw[i].date = Today
             pushed == Append(dw, [date |-> Today, count |-> 1])
         IN  [st EXCEPT !.words = Append(@, word),
                        !.dailyWords =
                            IF hit THEN [dw EXCEPT ![di].count = @ + 1]
                            ELSE IF Len(pushed) > MaxDailyWords THEN Tail(pushed)
                            ELSE pushed]

\* handleSaveWord of the learning screen when saveWordToBackend fails: the
\* session word (bucket 'needs work', no lastReviewed) goes to local storage
LocalSaveWord(w) ==
    /\ asyncStorage' = StorageSaveWord(asyncStorage,
                           [id |-> w, bucket |-> "needs work", lastReviewed |-> Null])
    /\ asyncStorage' # asyncStorage
    /\ presp' = NoPResp
    /\ UNCHANGED <<users, user_words, quiz_results, daily_progress, applied>>
    /\ UNCHANGED <<clock, cacheVars, keyVars, toolVars>>

\* the bucket computed by updateWordBucket
updateWordBucket(bucket, isCorrect) ==
    IF isCorrect
    THEN IF bucket = "needs work" THEN "familiar"
         ELSE IF bucket = "familiar" THEN "well known"
         ELSE bucket
    ELSE "needs work"

\* saveQuizResult(wordId, isCorrect) of utils/storage.ts: push the result,
\* then updateWordBucket, which returns early when the word is not stored
\* and otherwise saves the word with its new bucket and lastReviewed
LocalSaveQuizResult(w, c) ==
    /\ Len(asyncStorage.quizResults) < MaxQuizResults
    /\ LET st == [asyncStorage EXCEPT
                     !.quizResults = Append(@, [wordId |-> w, isCorrect |-> c, timestamp |-> Now])]
       IN  asyncStorage' =
               IF LocalHas(st.words, w)
               THEN LET old == st.words[LocalIndex(st.words, w)]
                    IN  StorageSaveWord(st, [old EXCEPT
                            !.bucket = updateWordBucket(old.bucket, c),
                            !.lastReviewed = <<Now>>])
               ELSE st
    /\ presp' = NoPResp
    /\ UNCHANGED <<users, user_words, quiz_results, daily_progress, applied>>
    /\ UNCHANGED <<clock, cacheVars, keyVars, toolVars>>

(***************************************************************************)
(* scripts/populateDatabase.ts: the batch loop of populateDatabase.  Each  *)
(* await of generateWordsBatch is a step that succeeds or throws; a throw  *)
(* of insertWords lands in the same catch block.                           *)
(***************************************************************************)
\* getAvailableProviders(): 'openai' first, then 'gemini', for the keys set
ProviderLists == { <<"openai">>, <<"gemini">>, <<"openai", "gemini">> }

NoScript ==
    [pc |-> "idle", providers |-> <<>>, providerIndex |-> 0, batch |-> 0,
     provider |-> "none", retryCount |-> 0, tried |-> <<>>, outcome |-> "none",
     providerStats |-> [openai |-> 0, gemini |-> 0]]
ScriptIdle == populate = NoScript

\* the top of the loop body: const provider = availableProviders[providerIndex % length]
StartBatch ==
    /\ populate.pc = "batch"
    /\ populate.batch < MaxBatches
    /\ populate' = [populate EXCEPT
          !.pc = "attempt",
          !.batch = @ + 1,
          !.provider = populate.providers[(populate.providerIndex % Len(populate.providers)) + 1],
          !.providerIndex = @ + 1,
          !.retryCount = 0,
          !.tried = <<>>,
          !.outcome = "none"]
    /\ UNCHANGED <<clock, cacheVars, keyVars, progressVars, quiz>>

\* generateWordsBatch(..., provider) and insertWords return: break
AttemptSucceeds ==
    /\ populate.pc = "attempt"
    /\ populate' = [populate EXCEPT
          !.pc = "batch",
          !.tried = Append(@, populate.provider),
          !.providerStats[populate.provider] = @ + 1,
          !.outcome = "inserted"]
    /\ UNCHANGED <<clock, cacheVars, keyVars, progressVars, quiz>>

\* the catch block: retryCount++, then either providerIndex is moved and the
\* while loop runs again with the same const provider, or the batch is left
AttemptFails ==
    LET n == Len(populate.providers)
        rc == populate.retryCount + 1
    IN  /\ populate.pc = "attempt"
        /\ populate' =
              IF rc < n
              THEN [populate EXCEPT
                      !.retryCount = rc,
                      !.tried = Append(@, populate.provider),
                      !.providerIndex = (populate.providerIndex - 1 + rc) % n]
              ELSE [populate EXCEPT
                      !.pc = "batch",
                      !.retryCount = rc,
                      !.tried = Append(@, populate.provider),
                      !.outcome = "gave up"]
        /\ UNCHANGED <<clock, cacheVars, keyVars, progressVars, quiz>>

(***************************************************************************)
(* screens/QuizScreen.tsx.  Each handler runs on the state of the latest   *)
(* render and React re-renders between two touch events, so a handler is   *)
(* one step.  An article is known by the cache key it was served under and *)
(* by the number of "______" markers in its text; the provider's text may  *)
(* hold one marker less than there are words.                              *)
(***************************************************************************)
QuizWords == {IdA, IdB, IdC}
\* selectedWords: what getWordsForQuiz returned, in its ranking order
QuizSelections ==
    { q \in UNION { [1..n -> QuizWords] : n \in 1..Cardinality(QuizWords) } :
        \A i, j \in 1..Len(q) : i # j => q[i] # q[j] }
MarkerCounts(q) == {Len(q) - 1, Len(q)}

\* the useState values of the first render; load holds the selectedWords of
\* a loadQuiz that is waiting for generateQuizArticle, results what
\* handleSubmit handed to saveQuizResultToBackend, last the outcome of the
\* latest handler
NoQuiz ==
    [words |-> <<>>, article |-> [key |-> <<>>, markers |-> 0], blanks |-> <<>>,
     availableWords |-> <<>>, submitted |-> FALSE, load |-> <<>>,
     results |-> <<>>, last |-> "none"]
ScreenIdle == quiz = NoQuiz

\* loadQuiz up to `await generateQuizArticle(wordIds)`: setWords(selectedWords)
LoadQuizWords(q) ==
    /\ quiz.load = <<>>
    /\ quiz' = [quiz EXCEPT !.words = q, !.load = <<q>>, !.last = "loading"]
    /\ UNCHANGED <<clock, cacheVars, keyVars, progressVars, populate>>

\* blankPositions holds one blank per selected word, in the order of
\* selectedWords, whatever the article is
blankPositions(selectedWords) ==
    [i \in 1..Len(selectedWords) |-> [wordId |-> Null, correctWordId |-> selectedWords[i]]]

\* loadQuiz after the await: the article is the one the backend serves under
\* the cache key of the ids, with m markers
LoadQuizArticle(m) ==
    /\ quiz.load # <<>>
    /\ m \in MarkerCounts(quiz.load[1])
    /\ quiz' = [quiz EXCEPT
          !.article = [key |-> KeyOf(quiz.load[1]), markers |-> m],
          !.blanks = blankPositions(quiz.load[1]),
          !.availableWords = quiz.load[1],
          !.submitted = FALSE,
          !.load = <<>>,
          !.results = <<>>,
          !.last = "loaded"]
    /\ UNCHANGED <<clock, cacheVars, keyVars, progressVars, populate>>

\* handleWordSelect(word), word being one of the chips of the word bank
HandleWordSelect(w) ==
    /\ w \in Range(quiz.words)
    /\ IF quiz.submitted
       THEN quiz' = [quiz EXCEPT !.last = "definition"]
       ELSE IF /\ w \in Range(quiz.availableWords)
               /\ \E i \in 1..Len(quiz.blanks) : quiz.blanks[i].wordId = Null
       THEN LET e == CHOOSE i \in 1..Len(quiz.blanks) :
                       /\ quiz.blanks[i].wordId = Null
                       /\ \A j \in 1..(i - 1) : quiz.blanks[j].wordId # Null
            IN  quiz' = [quiz EXCEPT
                    !.blanks[e].wordId = w,
                    !.availableWords = SelectSeq(@, LAMBDA x : x # w),
                    !.last = "selected"]
       ELSE quiz' = [quiz EXCEPT !.last = "ignored"]
    /\ UNCHANGED <<clock, cacheVars, keyVars, progressVars, populate>>

\* renderArticle: one touchable per "______" marker while blanks last
RenderedBlanks == IF quiz.article.markers < Len(quiz.blanks)
                  THEN quiz.article.markers ELSE Len(quiz.blanks)
\* the onPress closures share the one `let blankIndex` of the render, which
\* the forEach has advanced past the last rendered blank by the time a press
\* runs: whichever blank k is pressed, the index handed on is this one
PressedIndex(k) == RenderedBlanks

\* handleRemoveBlank(blankIndex), blankIndex counted from 0: blanks[blankIndex]
\* is undefined past the end and reading its wordId throws a TypeError
handleRemoveBlank(blankIndex) ==
    IF quiz.submitted THEN [quiz EXCEPT !.last = "ignored"]
    ELSE IF blankIndex + 1 > Len(quiz.blanks) THEN [quiz EXCEPT !.last = "TypeError"]
    ELSE IF quiz.blanks[blankIndex + 1].wordId = Null THEN [quiz EXCEPT !.last = "ignored"]
    ELSE [quiz EXCEPT
            !.availableWords =
                IF quiz.blanks[blankIndex + 1].wordId \in Range(quiz.words)
                THEN Append(@, quiz.blanks[blankIndex + 1].wordId) ELSE @,
            !.blanks[blankIndex + 1].wordId = Null,
            !.last = "removed"]

\* onPress of the blank rendered at position k (from 1), which is filled
PressBlank(k) ==
    /\ k \in 1..RenderedBlanks
    /\ quiz.blanks[k].wordId # Null
    /\ quiz' = IF ~quiz.submitted
               THEN handleRemoveBlank(PressedIndex(k))
               ELSE [quiz EXCEPT !.last = "definition"]
    /\ UNCHANGED <<clock, cacheVars, keyVars, progressVars, populate>>

\* a variant of handleSubmit without the check for empty blanks
SubmitUnchecked ==
    /\ ~quiz.submitted
    /\ quiz' = [quiz EXCEPT
          !.submitted = TRUE,
          !.results = [i \in 1..Len(quiz.blanks) |->
                         <<quiz.blanks[i].correctWordId,
                           quiz.blanks[i].wordId = quiz.blanks[i].correctWordId>>],
          !.last = "submitted"]
    /\ UNCHANGED <<clock, cacheVars, keyVars, progressVars, populate>>

\* handleSubmit, the onPress of the button that is shown while not
\* submitted; each result goes to saveQuizResultToBackend, or to local
\* storage when that fails, under the blank's correctWordId
HandleSubmit ==
    /\ ~quiz.submitted
    /\ IF \E i \in 1..Len(quiz.blanks) : quiz.blanks[i].wordId = Null
       THEN quiz' = [quiz EXCEPT !.last = "alert"]
       ELSE quiz' = [quiz EXCEPT
                !.submitted = TRUE,
                !.results = [i \in 1..Len(quiz.blanks) |->
                               <<quiz.blanks[i].correctWordId,
                                 quiz.blanks[i].wordId = quiz.blanks[i].correctWordId>>],
                !.last = "submitted"]
    /\ UNCHANGED <<clock, cacheVars, keyVars, progressVars, populate>>

(***************************************************************************)
(* The environment: time, node-cache's periodic sweep, a process restart.  *)
(***************************************************************************)
Tick(f) ==
    /\ clock.s + clock.h + clock.d < MaxTicks
    /\ clock' = [clock EXCEPT ![f] = @ + 1]
    /\ resp' = NoResp
    /\ UNCHANGED <<apiKey, openaiClient, memoryCache, cached_articles, pending, lastGen>>
    /\ UNCHANGED <<keyVars, toolVars, progressVars>>

\* a calendar day passes
Midnight ==
    /\ clock.d < MaxDays
    /\ clock' = [clock EXCEPT !.d = @ + 1]
    /\ presp' = NoPResp
    /\ UNCHANGED <<cacheVars, keyVars, toolVars>>
    /\ UNCHANGED <<users, user_words, quiz_results, daily_progress, applied, asyncStorage>>

\* node-cache's checkperiod timer deletes the expired keys
CheckData ==
    /\ \E k \in DOMAIN memoryCache : Expired(memoryCache[k])
    /\ memoryCache' = [k \in {x \in DOMAIN memoryCache : ~Expired(memoryCache[x])} |-> memoryCache[k]]
    /\ resp' = NoResp
    /\ UNCHANGED <<clock, apiKey, openaiClient, cached_articles, pending, lastGen>>
    /\ UNCHANGED <<keyVars, toolVars, progressVars>>

\* the process restarts: module state is lost, the database file stays
Restart ==
    /\ memoryCache # EmptyCache \/ openaiClient
    /\ memoryCache' = EmptyCache
    /\ openaiClient' = FALSE
    /\ pending' = [r \in Slots |-> Free]
    /\ resp' = NoResp
    /\ UNCHANGED <<clock, apiKey, cached_articles, lastGen>>
    /\ UNCHANGED <<keyVars, toolVars, progressVars>>

ToolsIdle == ScriptIdle /\ ScreenIdle

ProgressIdle ==
    /\ users = {}
    /\ user_words = <<>>
    /\ quiz_results = NoQuizResults
    /\ daily_progress = <<>>
    /\ applied = [w \in ProgressWordIds |-> 0]
    /\ asyncStorage = NoStorage
    /\ presp = NoPResp

KeyIdle == keyIn = <<>> /\ keyOut = <<>>

InitCache ==
    /\ clock = [s |-> 0, h |-> 0, d |-> 0]
    /\ apiKey \in BOOLEAN
    /\ openaiClient = FALSE
    /\ memoryCache = EmptyCache
    /\ cached_articles = <<>>
    /\ pending = [r \in Slots |-> Free]
    /\ resp = NoResp
    /\ lastGen = NoGen

Init == InitCache /\ KeyIdle /\ ProgressIdle /\ ToolsIdle

NextCache ==
    \/ \E q \in RequestWordIds : GenerateBadRequest(q, TRUE)
    \/ \E q \in RequestWordIds : GenerateMemoryHit(q)
    \/ \E q \in RequestWordIds : GenerateDatabaseHit(q)
    \/ \E q \in RequestWordIds : GenerateNoClient(q)
    \/ \E q \in RequestWordIds : GenerateMiss(q)
    \/ \E r \in Slots, v \in LLMReplies : LLMReturns(r, v)
    \/ \E r \in Slots : LLMFails(r)
    \/ Tick("h")
    \/ CheckData
    \/ Restart

Spec == Init /\ [][NextCache]_vars

\* The cache with what Node's event loop guarantees: a timer that is due
\* fires, and the only timer of the program is node-cache's checkperiod
\* timer.  Nothing makes the provider settle the promise of
\* openai.chat.completions.create: the call is given no timeout and no
\* AbortSignal, and no timer of the program races it, so LLMReturns and
\* LLMFails carry no fairness; nor are clients bound to send requests.
SpecLive == Init /\ [][NextCache]_vars /\ WF_vars(CheckData)

\* The cache with a database whose statements may fail, under the requests
\* that pass the route's checks and so reach generateQuizArticle.
FaultRequestWordIds == { <<IdA, IdB, IdC>>, <<IdA>> }

NextDbFaults ==
    \/ \E q \in FaultRequestWordIds : GenerateMemoryHit(q)
    \/ \E q \in FaultRequestWordIds : GenerateDatabaseHit(q)
    \/ \E q \in FaultRequestWordIds : GenerateNoClient(q)
    \/ \E q \in FaultRequestWordIds : GenerateMiss(q)
    \/ \E r \in Slots, v \in LLMReplies : LLMReturns(r, v)
    \/ \E r \in Slots : LLMFails(r)
    \/ \E q \in FaultRequestWordIds : GenerateDbReadFails(q)
    \/ \E q \in FaultRequestWordIds : GenerateDbTouchFails(q)
    \/ \E r \in Slots, v \in LLMReplies :
          StoreDbInsertFails(r, LLMArticle(v, pending[r][1].words), "ok")
    \/ \E r \in Slots :
          StoreDbInsertFails(r, generateFallbackArticle(pending[r][1].words), "failed")
    \/ Tick("h")
    \/ CheckData
    \/ Restart

SpecDbFaults == Init /\ [][NextDbFaults]_vars

\* The cache over days: the clock advances by a day or by a second, so
\* rows of cached_articles reach and pass the age limit of cleanupOldCache.
AgingRequestWordIds == { <<IdA, IdB, IdC>>, <<IdA>> }

NextAging ==
    \/ \E q \in AgingRequestWordIds : GenerateMemoryHit(q)
    \/ \E q \in AgingRequestWordIds : GenerateDatabaseHit(q)
    \/ \E q \in AgingRequestWordIds : GenerateNoClient(q)
    \/ \E q \in AgingRequestWordIds : GenerateMiss(q)
    \/ \E r \in Slots, v \in LLMReplies : LLMReturns(r, v)
    \/ \E r \in Slots : LLMFails(r)
    \/ Tick("d")
    \/ Tick("s")
    \/ CheckData
    \/ Restart

SpecAging == Init /\ [][NextAging]_vars

CacheIdle ==
    /\ apiKey = FALSE
    /\ openaiClient = FALSE
    /\ memoryCache = EmptyCache
    /\ cached_articles = <<>>
    /\ pending = [r \in Slots |-> Free]
    /\ resp = NoResp
    /\ lastGen = NoGen

InitProgress ==
    clock = [s |-> 0, h |-> 0, d |-> 0] /\ CacheIdle /\ KeyIdle /\ ProgressIdle /\ ToolsIdle

NextProgress ==
    \/ \E u \in UserIds : PostUser(u)
    \/ \E u \in UserIds, w \in ProgressWordIds : PostSaveWord(u, w)
    \/ \E u \in UserIds, w \in QuizWordIds, c \in BOOLEAN : PostQuizResult(u, w, c)
    \/ \E u \in UserIds, n \in QuizLimits : GetQuizWords(u, n)
    \/ Midnight

SpecProgress == InitProgress /\ [][NextProgress]_vars

\* One word followed through both stores: the backend while it answers,
\* utils/storage.ts when the backend call fails.
NextMastery ==
    \/ \E u \in UserIds : PostUser(u)
    \/ \E u \in UserIds, w \in LocalWordIds : PostSaveWord(u, w)
    \/ \E u \in UserIds, w \in LocalWordIds, c \in BOOLEAN : PostQuizResult(u, w, c)
    \/ \E w \in LocalWordIds : LocalSaveWord(w)
    \/ \E w \in LocalWordIds, c \in BOOLEAN : LocalSaveQuizResult(w, c)

SpecMastery == InitProgress /\ [][NextMastery]_vars

(***************************************************************************)
(* The cache key of generateQuizArticle, applied to two orderings of one   *)
(* set of word ids.                                                        *)
(***************************************************************************)
KeyIds == {IdA, IdB, IdC, IdX}
Orderings(S) == { q \in UNION { [1..n -> S] : n \in 1..Cardinality(S) } :
                    \A i, j \in 1..Len(q) : i # j => q[i] # q[j] }
WordsOf(q) == [i \in 1..Len(q) |-> [id |-> q[i], def |-> 9]]

InitKey ==
    /\ clock = [s |-> 0, h |-> 0, d |-> 0] /\ CacheIdle /\ ProgressIdle /\ ToolsIdle
    /\ keyIn \in { <<a, b>> : a \in Orderings(KeyIds), b \in Orderings(KeyIds) }
    /\ keyOut = <<>>

ComputeKeys ==
    /\ keyOut = <<>>
    /\ keyOut' = <<CacheKey(WordsOf(keyIn[1])), CacheKey(WordsOf(keyIn[2]))>>
    /\ UNCHANGED <<keyIn, clock, cacheVars, progressVars, toolVars>>

SpecKey == InitKey /\ [][ComputeKeys]_vars

(***************************************************************************)
(* The catch block of generateArticleWithLLM, applied to every list of up  *)
(* to MaxWords words whose definitions take any of the branches.           *)
(***************************************************************************)
WordLists ==
    UNION { [1..n -> [id : {IdA}, def : FallbackBranches]] : n \in 1..MaxWords }

InitFallback ==
    /\ clock = [s |-> 0, h |-> 0, d |-> 0] /\ CacheIdle /\ ProgressIdle /\ ToolsIdle
    /\ keyIn \in WordLists
    /\ keyOut = <<>>

FallbackReturns ==
    /\ keyOut = <<>>
    /\ keyOut' = <<FallbackText(keyIn), generateFallbackArticle(keyIn)>>
    /\ UNCHANGED <<keyIn, clock, cacheVars, progressVars, toolVars>>

SpecFallback == InitFallback /\ [][FallbackReturns]_vars

(***************************************************************************)
(* The population script, for every set of configured providers.           *)
(***************************************************************************)
InitPopulate ==
    /\ clock = [s |-> 0, h |-> 0, d |-> 0] /\ CacheIdle /\ KeyIdle /\ ProgressIdle
    /\ ScreenIdle
    /\ populate \in { [NoScript EXCEPT !.pc = "batch", !.providers = ps] : ps \in ProviderLists }

NextPopulate ==
    \/ StartBatch
    \/ AttemptSucceeds
    \/ AttemptFails

SpecPopulate == InitPopulate /\ [][NextPopulate]_vars

(***************************************************************************)
(* The quiz screen, from its first loadQuiz on.                            *)
(***************************************************************************)
InitQuiz ==
    /\ clock = [s |-> 0, h |-> 0, d |-> 0] /\ CacheIdle /\ KeyIdle /\ ProgressIdle
    /\ ScriptIdle
    /\ ScreenIdle

NextQuiz ==
    \/ \E q \in QuizSelections : LoadQuizWords(q)
    \/ \E m \in 0..Cardinality(QuizWords) : LoadQuizArticle(m)
    \/ \E w \in QuizWords : HandleWordSelect(w)
    \/ \E k \in 1..Cardinality(QuizWords) : PressBlank(k)
    \/ HandleSubmit

SpecQuiz == InitQuiz /\ [][NextQuiz]_vars

(***************************************************************************)
(* Properties of the article cache, checked under Spec.                    *)
(***************************************************************************)
RowsOf(T, k) == { i \in 1..Len(T) : T[i].word_ids = k }
KeyABC == KeyOf(<<IdA, IdB, IdC>>)

\* C1: whenever the provider call fails or no client can be constructed,
\* the request is still answered with an article, the fallback text; the
\* failure never reaches the caller.
C1_FailureAbsorbed ==
    resp.llm \in {"failed", "noclient"} =>
        resp.status = 200 /\ resp.article.gen = "fallback"

\* C2 as stated: once a call for <<A, B, C>> has generated the text and its
\* durable row stands with access_count 0, a following call for
\* <<C, B, A>> is a cache hit with that text and takes access_count to 1.
C2_ReorderedHitCountsAccess ==
    [][ ( /\ lastGen.wordIds = <<IdA, IdB, IdC>>
          /\ \A r \in Slots : pending[r] = Free
          /\ Cardinality(RowsOf(cached_articles, KeyABC)) = 1
          /\ \A i \in RowsOf(cached_articles, KeyABC) :
                /\ cached_articles[i].access_count = 0
                /\ cached_articles[i].article_text = lastGen.article
          /\ resp'.wordIds = <<IdC, IdB, IdA>>
          /\ resp'.status # 0 )
        => ( /\ resp'.status = 200
             /\ resp'.via \in {"memory", "database"}
             /\ resp'.article = lastGen.article
             /\ \A i \in RowsOf(cached_articles', KeyABC) :
                   cached_articles'[i].access_count = 1 ) ]_vars

\* C2 amended: while memoryCache still holds the text the call for
\* <<A, B, C>> generated and no request is in flight, every call for
\* <<C, B, A>> is a memory hit with that text and leaves cached_articles,
\* access_count included, as it was.
C2_ReorderedMemoryHit ==
    [][ ( /\ lastGen.wordIds = <<IdA, IdB, IdC>>
          /\ \A r \in Slots : pending[r] = Free
          /\ MemLive(memoryCache, KeyABC)
          /\ memoryCache[KeyABC].v = lastGen.article
          /\ resp'.wordIds = <<IdC, IdB, IdA>>
          /\ resp'.status # 0 )
        => ( /\ resp'.status = 200
             /\ resp'.via = "memory"
             /\ resp'.article = lastGen.article
             /\ cached_articles' = cached_articles ) ]_vars

\* a call for <<C, B, A>> was answered from memory with the text generated
\* for <<A, B, C>>, and the durable row still has access_count 0
C2_Witness ==
    /\ lastGen.wordIds = <<IdA, IdB, IdC>>
    /\ resp.wordIds = <<IdC, IdB, IdA>>
    /\ resp.via = "memory"
    /\ resp.article = lastGen.article
    /\ Cardinality(RowsOf(cached_articles, KeyABC)) = 1
    /\ \A i \in RowsOf(cached_articles, KeyABC) : cached_articles[i].access_count = 0

\* C3: with no request in flight and a durable row present for the word set
\* of the latest generation, an answered call for that word set returns the
\* generated text again and comes from a cache, not from the generator.
C3_SecondCallSameText ==
    [][ ( /\ lastGen.wordIds # <<>>
          /\ \A r \in Slots : pending[r] = Free
          /\ DbHas(cached_articles, KeyOf(lastGen.wordIds))
          /\ resp'.status # 0
          /\ ValidRequest(resp'.wordIds, TRUE)
          /\ KeyOf(resp'.wordIds) = KeyOf(lastGen.wordIds) )
        => ( /\ resp'.status = 200
             /\ resp'.via \in {"memory", "database"}
             /\ resp'.article = lastGen.article ) ]_vars

\* C9: cached_articles never holds two rows with the same word_ids.
C9_OneRowPerKey ==
    \A i, j \in 1..Len(cached_articles) :
        cached_articles[i].word_ids = cached_articles[j].word_ids => i = j

\* C10: every key memoryCache serves has a row in cached_articles, and the
\* text in memory is the text the durable probe returns for the key.
C10_MemorySubsetOfDurable ==
    \A k \in DOMAIN memoryCache :
        MemLive(memoryCache, k) =>
            /\ DbHas(cached_articles, k)
            /\ DbGet(cached_articles, k) = memoryCache[k].v

\* C11: cached_articles never holds more than MAX_CACHED_ARTICLES rows once
\* the cleanup that follows an insert has run, and no row that cleanup
\* deleted has a last_accessed later than that of a row it kept.
C11_TrimKeepsMostRecent ==
    /\ Len(cached_articles) <= MAX_CACHED_ARTICLES
    /\ resp.via = "generated" =>
          \A d \in resp.evicted : \A i \in 1..Len(cached_articles) :
              d.last_accessed <= cached_articles[i].last_accessed

\* an insert took the table beyond its capacity and the cleanup deleted a
\* row that was accessed earlier than a row it kept
C11_Witness ==
    /\ resp.via = "generated"
    /\ Len(cached_articles) = MAX_CACHED_ARTICLES
    /\ \E d \in resp.evicted : \E i \in 1..Len(cached_articles) :
          d.last_accessed < cached_articles[i].last_accessed

\* the number of word ids joined in a cache key
KeySize(k) == Cardinality({i \in 1..Len(k) : k[i] = Comma}) + 1

\* C12: every article held by memoryCache or by cached_articles under the
\* key of a word set of size K has exactly K "______" markers.
C12_StoredBlanksMatch ==
    /\ \A k \in DOMAIN memoryCache : memoryCache[k].v.blanks = KeySize(k)
    /\ \A i \in 1..Len(cached_articles) :
          cached_articles[i].article_text.blanks = KeySize(cached_articles[i].word_ids)

\* C14: a request for a valid word set whose database read or write fails
\* is still answered 200 with a generated article.
C14_PersistenceFailureNotFatal ==
    resp.via \in {"dbread", "dbwrite"} =>
        /\ resp.status = 200
        /\ resp.article.gen \in {"llm", "fallback"}

\* C15: every /generate request that reached the provider call is
\* eventually answered, even if the provider never responds.
C15_EveryCallReturns ==
    \A r \in Slots : (pending[r] # Free) ~> (pending[r] = Free)

\* the text the two probes of generateQuizArticle serve for key k from
\* memory m and table T; NoArticle when they serve none (both miss and the
\* provider is asked, or memoryCache.set throws)
ServedText(m, T, k) ==
    IF MemLive(m, k) THEN m[k].v
    ELSE IF DbHas(T, k) /\ ~MemFull(MemAfterGet(m, k)) THEN DbGet(T, k)
    ELSE NoArticle

\* C16: in every reachable state and for every valid word set, the text
\* the next call is served is the same whether or not memoryCache is
\* emptied first.
C16_MemoryDisposable ==
    \A q \in RequestWordIds :
        ValidRequest(q, TRUE) =>
            ServedText(memoryCache, cached_articles, KeyOf(q))
                = ServedText(EmptyCache, cached_articles, KeyOf(q))

\* C17: a request whose wordIds array is empty or holds an id of no word is
\* answered 400, and that step leaves memoryCache (expired keys included),
\* cached_articles, the requests in flight and the provider client as they
\* were.
C17_InvalidInputTouchesNothing ==
    [][ ( /\ resp'.status # 0
          /\ \/ resp'.wordIds = <<>>
             \/ \E i \in 1..Len(resp'.wordIds) :
                   \A j \in 1..Len(WordsTable) : WordsTable[j].id # resp'.wordIds[i] )
        => ( /\ resp'.status = 400
             /\ memoryCache' = memoryCache
             /\ cached_articles' = cached_articles
             /\ pending' = pending
             /\ openaiClient' = openaiClient ) ]_vars

\* a request naming an unknown id was answered 400 while memoryCache held
\* an expired key, which a memoryCache.get of the request's other id would
\* have deleted, and cached_articles held a row
C17_Witness ==
    /\ resp.status = 400
    /\ resp.wordIds = <<IdA, IdX>>
    /\ IdA \in DOMAIN memoryCache
    /\ Expired(memoryCache[IdA])
    /\ cached_articles # <<>>

\* C20: a request whose wordIds array is not empty and names only words
\* of the words table, some of them more than once, is not refused as
\* invalid input; it is served under the key of its distinct ids.
C20_DuplicateIdsAccepted ==
    ( /\ resp.status # 0
      /\ resp.wordIds # <<>>
      /\ \A i \in 1..Len(resp.wordIds) :
            \E j \in 1..Len(WordsTable) : WordsTable[j].id = resp.wordIds[i] )
    => /\ resp.status # 400
       /\ resp.status = 200 =>
             \E k \in {KeyOf(resp.wordIds)} :
                 \/ DbHas(cached_articles, k)
                 \/ k \in DOMAIN memoryCache

\* C23: a call answered from memoryCache changes nothing: the durable rows
\* (access_count and last_accessed included), memoryCache, the requests in
\* flight at the generator and the record of the latest generation are as
\* before, and nothing was evicted.
C23_MemoryHitHasNoSideEffects ==
    [][ ( resp'.via = "memory" /\ resp' # resp )
        => ( /\ cached_articles' = cached_articles
             /\ memoryCache' = memoryCache
             /\ pending' = pending
             /\ lastGen' = lastGen
             /\ openaiClient' = openaiClient
             /\ resp'.evicted = {}
             /\ resp'.llm = "none" ) ]_vars

\* a call was answered from memoryCache while the durable row of its key
\* stands untouched since its insertion
C23_Witness ==
    /\ resp.via = "memory"
    /\ resp.status = 200
    /\ \E i \in RowsOf(cached_articles, KeyOf(resp.wordIds)) :
          /\ cached_articles[i].access_count = 0
          /\ cached_articles[i].last_accessed < Now

\* C24: a call that misses memoryCache while cached_articles holds its key
\* is answered 200 with exactly the stored article_text, without the
\* generator; access_count of the entry goes up by exactly 1, last_accessed
\* becomes the current time and the text is in memoryCache under the key.
C24_DatabaseHitTouchesAndPromotes ==
    [][ ( /\ resp'.status # 0
          /\ resp' # resp
          /\ pending' = pending
          /\ ValidRequest(resp'.wordIds, TRUE)
          /\ ~MemLive(memoryCache, KeyOf(resp'.wordIds))
          /\ DbHas(cached_articles, KeyOf(resp'.wordIds)) )
        => LET k == KeyOf(resp'.wordIds)
           IN  /\ resp'.status = 200
               /\ resp'.via = "database"
               /\ resp'.llm = "none"
               /\ resp'.article = DbGet(cached_articles, k)
               /\ lastGen' = lastGen
               /\ Len(cached_articles') = Len(cached_articles)
               /\ \A i \in 1..Len(cached_articles) :
                     IF cached_articles[i].word_ids = k
                     THEN /\ cached_articles'[i].access_count =
                                cached_articles[i].access_count + 1
                          /\ cached_articles'[i].last_accessed = Now
                          /\ cached_articles'[i].article_text =
                                cached_articles[i].article_text
                     ELSE cached_articles'[i] = cached_articles[i]
               /\ MemLive(memoryCache', k)
               /\ memoryCache'[k].v = DbGet(cached_articles, k) ]_vars

\* a call was answered from cached_articles some time after the row was
\* inserted: the row is at access_count 1, stamped with the current time, and
\* memoryCache holds the text that was returned
C24_Witness ==
    /\ resp.via = "database"
    /\ resp.status = 200
    /\ Now > 0
    /\ MemLive(memoryCache, KeyOf(resp.wordIds))
    /\ memoryCache[KeyOf(resp.wordIds)].v = resp.article
    /\ \E i \in RowsOf(cached_articles, KeyOf(resp.wordIds)) :
          /\ cached_articles[i].access_count = 1
          /\ cached_articles[i].last_accessed = Now
          /\ cached_articles[i].article_text = resp.article

(***************************************************************************)
(* Properties of the age limit, checked under SpecAging.                   *)
(***************************************************************************)
\* C21: with the default configuration, a cleanup that trims nothing (the
\* table stays below MAX_CACHED_ARTICLES) deletes only rows that were last
\* accessed more than 7 days (604800 s) ago.
C21_SevenDayAgeLimit ==
    ( resp.via = "generated" /\ Len(cached_articles) < MAX_CACHED_ARTICLES )
    => \A d \in resp.evicted : d.last_accessed < Now - DOCUMENTED_TTL_SECONDS

\* the rows of T whose last access is no older than the configured maximum age
WithinAge(T) ==
    { i \in 1..Len(T) : T[i].last_accessed >= Now - QUIZ_CACHE_TTL_SECONDS }

\* C25: after the cleanup that follows an insertion no row older than the
\* maximum age is left; when the rows within the age limit fit under
\* MAX_CACHED_ARTICLES none of them was deleted, so every deleted row was
\* older than the limit; and running the cleanup again deletes nothing more.
C25_AgeExpiryExactAndIdempotent ==
    [][ ( resp'.via = "generated" /\ resp' # resp )
        => ( /\ \A i \in 1..Len(cached_articles') : i \in WithinAge(cached_articles')
             /\ Cardinality(WithinAge(cached_articles)) + 1 <= MAX_CACHED_ARTICLES
                  => /\ \A d \in resp'.evicted :
                           d.last_accessed < Now - QUIZ_CACHE_TTL_SECONDS
                     /\ \A i \in WithinAge(cached_articles) :
                           cached_articles[i] \in Range(cached_articles')
             /\ cleanupOldCache(cached_articles') = cached_articles' ) ]_vars

\* an insertion's cleanup deleted a row older than the maximum age and kept
\* a row whose age is exactly the maximum
C25_Witness ==
    /\ resp.via = "generated"
    /\ \E d \in resp.evicted : d.last_accessed < Now - QUIZ_CACHE_TTL_SECONDS
    /\ \E i \in 1..Len(cached_articles) :
          cached_articles[i].last_accessed = Now - QUIZ_CACHE_TTL_SECONDS

\* C30: a call is never answered from cached_articles with a row whose
\* last access is older than the maximum age.
C30_NoStaleDatabaseHit ==
    [][ ( resp'.via = "database" /\ resp' # resp )
        => \A i \in RowsOf(cached_articles, KeyOf(resp'.wordIds)) :
              i \in WithinAge(cached_articles) ]_vars

(***************************************************************************)
(* The fallback article, checked under SpecFallback.                       *)
(***************************************************************************)
\* C13: the text the catch block returns for K >= 1 words is the fallback
\* text, is not empty and holds exactly K "______" markers, one in the
\* sentence of each word, whichever branches the definitions take.
C13_FallbackOneBlankPerWord ==
    keyOut # <<>> =>
        /\ keyOut[1] # <<>>
        /\ CountBlanks(keyOut[1]) = Len(keyIn)
        /\ \A i \in 1..Len(keyIn) : CountBlanks(FallbackSentence(keyIn[i].def)) = 1
        /\ keyOut[2].gen = "fallback"
        /\ keyOut[2].blanks = Len(keyIn)

\* the fallback text was built for several words, one of them taking the
\* final else branch and another one a keyword branch
C13_Witness ==
    /\ keyOut # <<>>
    /\ Len(keyIn) > 1
    /\ \E i, j \in 1..Len(keyIn) : keyIn[i].def = 9 /\ keyIn[j].def < 9
    /\ keyOut[2].gen = "fallback"

(***************************************************************************)
(* The cache key, checked under SpecKey.                                   *)
(***************************************************************************)
\* C4: two orderings of the same set of word ids give the same cache key.
C4_KeyOrderIndependent ==
    (keyOut # <<>> /\ Range(keyIn[1]) = Range(keyIn[2])) => keyOut[1] = keyOut[2]

\* the keys of <<A, B, C>> and <<C, B, A>> were computed and are "1,10,2"
C4_Witness ==
    /\ keyIn = << <<IdA, IdB, IdC>>, <<IdC, IdB, IdA>> >>
    /\ keyOut = << <<49, 44, 49, 48, 44, 50>>, <<49, 44, 49, 48, 44, 50>> >>

(***************************************************************************)
(* Properties of the mastery buckets, checked under SpecMastery.           *)
(***************************************************************************)
MasteryTable ==
    (<<"needs work", TRUE>> :> "familiar") @@ (<<"familiar", TRUE>> :> "well known") @@
    (<<"well known", TRUE>> :> "well known") @@ (<<"needs work", FALSE>> :> "needs work") @@
    (<<"familiar", FALSE>> :> "needs work") @@ (<<"well known", FALSE>> :> "needs work")

\* C5: a quiz result moves the word's bucket exactly as the table says, one
\* step up on a correct answer and to 'needs work' on an incorrect one, in
\* the backend handler (row and response) and in local storage alike.
C5_BucketTransition ==
    [][ /\ \A u \in UserIds, w \in ProgressWordIds, c \in BOOLEAN :
             (PostQuizResult(u, w, c) /\ u \in users /\ Saved(user_words, u, w)) =>
                 LET i == UserWordIndex(user_words, u, w)
                 IN  /\ user_words'[i].bucket = MasteryTable[<<user_words[i].bucket, c>>]
                     /\ presp'.newBucket = user_words'[i].bucket
        /\ \A w \in ProgressWordIds, c \in BOOLEAN :
             (LocalSaveQuizResult(w, c) /\ LocalHas(asyncStorage.words, w)) =>
                 LET i == LocalIndex(asyncStorage.words, w)
                 IN  asyncStorage'.words[i].bucket =
                         MasteryTable[<<asyncStorage.words[i].bucket, c>>] ]_vars

\* correct, correct, incorrect were applied to IdA in both stores: two
\* correct and one incorrect answer end in 'needs work' only in that order
C5_Witness ==
    /\ \E i \in 1..Len(user_words) :
          /\ user_words[i].word_id = IdA
          /\ user_words[i].correct_count = 2 /\ user_words[i].incorrect_count = 1
          /\ user_words[i].bucket = "needs work"
    /\ [i \in 1..Len(asyncStorage.quizResults) |-> asyncStorage.quizResults[i].isCorrect]
           = <<TRUE, TRUE, FALSE>>
    /\ LocalHas(asyncStorage.words, IdA)
    /\ asyncStorage.words[LocalIndex(asyncStorage.words, IdA)].bucket = "needs work"
    /\ asyncStorage.words[LocalIndex(asyncStorage.words, IdA)].lastReviewed # Null

(***************************************************************************)
(* Properties of the progress routes, checked under SpecProgress.          *)
(***************************************************************************)
\* C6: every user_words row has review_count = correct_count +
\* incorrect_count, and review_count is the number of quiz results applied
\* to the row, whatever the order in which the requests ran.
C6_ReviewCountExact ==
    \A i \in 1..Len(user_words) :
        /\ user_words[i].review_count =
               user_words[i].correct_count + user_words[i].incorrect_count
        /\ user_words[i].review_count = applied[user_words[i].word_id]

\* three results, correct and incorrect ones, were applied to one row
C6_Witness ==
    \E i \in 1..Len(user_words) :
        /\ user_words[i].review_count = 3
        /\ user_words[i].correct_count > 0
        /\ user_words[i].incorrect_count > 0
        /\ applied[user_words[i].word_id] = 3

\* C7: a quiz result for a word the user has not saved is answered 404 and
\* changes none of user_words, quiz_results and daily_progress.
C7_UnsavedIsNotFound ==
    [][ \A u \in UserIds, w \in ProgressWordIds, c \in BOOLEAN :
            (PostQuizResult(u, w, c) /\ ~Saved(user_words, u, w)) =>
                /\ presp'.status = 404
                /\ UNCHANGED <<user_words, quiz_results, daily_progress>> ]_vars

Priority == ("needs work" :> 1) @@ ("familiar" :> 2) @@ ("well known" :> 3)
\* x goes strictly before y: higher priority bucket, or the same bucket and
\* never reviewed against reviewed, or reviewed earlier
Precedes(xb, xr, yb, yr) ==
    \/ Priority[xb] < Priority[yb]
    \/ /\ xb = yb
       /\ \/ xr = Null /\ yr # Null
          \/ xr # Null /\ yr # Null /\ xr[1] < yr[1]

\* C8: the quiz words returned are the user's saved words, each once, in
\* bucket priority order with ties by last review, never-reviewed first,
\* cut to the first maxWords; with the three buckets present the first
\* word is a 'needs work' one.
C8_QuizWordsRanked ==
    presp.op = "quiz-words" =>
        LET out == presp.words
            n == presp.limit
            mine == { i \in 1..Len(user_words) : user_words[i].user_id \in UserIds }
            shown == { i \in mine : \E j \in 1..Len(out) : out[j].id = user_words[i].word_id }
        IN  /\ Len(out) = IF n < Cardinality(mine) THEN n ELSE Cardinality(mine)
            /\ Cardinality(shown) = Len(out)
            /\ \A j \in 1..Len(out) : \E i \in mine :
                  /\ out[j].id = user_words[i].word_id
                  /\ out[j].bucket = user_words[i].bucket
                  /\ out[j].lastReviewed = user_words[i].last_reviewed
            /\ \A j, k \in 1..Len(out) : j < k =>
                  ~Precedes(out[k].bucket, out[k].lastReviewed,
                            out[j].bucket, out[j].lastReviewed)
            /\ \A i \in mine \ shown : \A j \in 1..Len(out) :
                  ~Precedes(user_words[i].bucket, user_words[i].last_reviewed,
                            out[j].bucket, out[j].lastReviewed)
            /\ ({ user_words[i].bucket : i \in mine } =
                    {"needs work", "familiar", "well known"})
                  => out[1].bucket = "needs work"

\* three saved words, the first saved one 'well known' by now, were
\* returned as 'needs work', 'familiar', 'well known'
C8_Witness ==
    /\ presp.op = "quiz-words"
    /\ Len(presp.words) = 3
    /\ [i \in 1..3 |-> presp.words[i].bucket] = <<"needs work", "familiar", "well known">>
    /\ Len(user_words) = 3
    /\ user_words[1].bucket = "well known"

\* the user_words rows of (u, w)
UserWordRows(T, u, w) == { i \in 1..Len(T) : T[i].user_id = u /\ T[i].word_id = w }

\* C18: the first save of an existing word by a registered user adds exactly
\* one user_words row, with bucket 'needs work', the three counters 0 and
\* last_reviewed null, and leaves the other rows alone; a save of a word the
\* user has already saved is answered 200 and changes neither user_words
\* nor daily_progress.
C18_SaveOnceThenNoOp ==
    [][ presp'.op = "save-word" =>
        \A u \in UserIds : \A w \in ProgressWordIds :
            /\ ( /\ u \in users /\ WordExists(w) /\ UserWordRows(user_words, u, w) = {}
                  /\ PostSaveWord(u, w) )
                => /\ Len(user_words') = Len(user_words) + 1
                   /\ \A i \in 1..Len(user_words) : user_words'[i] = user_words[i]
                   /\ UserWordRows(user_words', u, w) = {Len(user_words')}
                   /\ LET row == user_words'[Len(user_words')]
                      IN  /\ row.bucket = "needs work"
                          /\ row.review_count = 0
                          /\ row.correct_count = 0
                          /\ row.incorrect_count = 0
                          /\ row.last_reviewed = Null
            /\ ( /\ UserWordRows(user_words, u, w) # {}
                  /\ ~( /\ presp'.status = 200
                        /\ user_words' = user_words
                        /\ daily_progress' = daily_progress ) )
                => ~PostSaveWord(u, w) ]_vars

\* a word that was saved and then reviewed was saved again: the answer is
\* 'Word already saved', its single row still carries the review, and the
\* day's words_saved counts one save
C18_Witness ==
    /\ presp.op = "save-word"
    /\ presp.newBucket = "already"
    /\ \E i \in 1..Len(user_words) :
          /\ UserWordRows(user_words, "u1", IdA) = {i}
          /\ user_words[i].review_count > 0
    /\ Len(user_words) = 1
    /\ Len(daily_progress) = 1
    /\ daily_progress[1].words_saved = 1

\* the daily_progress rows of user u for today
DailyRows(T, u) == { i \in 1..Len(T) : T[i].user_id = u /\ T[i].date = Today }
DailyCounters == {"words_saved", "quizzes_completed", "words_reviewed"}

\* what an event that counts under field must do to daily_progress: with no
\* row of (u, today) append one with field at 1 and the other counters at 0;
\* otherwise add 1 to field of that row and leave everything else alone
CountedOnce(u, field) ==
    IF DailyRows(daily_progress, u) = {}
    THEN /\ Len(daily_progress') = Len(daily_progress) + 1
         /\ \A i \in 1..Len(daily_progress) : daily_progress'[i] = daily_progress[i]
         /\ LET row == daily_progress'[Len(daily_progress')]
            IN  /\ row.user_id = u
                /\ row.date = Today
                /\ \A f \in DailyCounters : row[f] = IF f = field THEN 1 ELSE 0
    ELSE /\ Len(daily_progress') = Len(daily_progress)
         /\ \A i \in 1..Len(daily_progress) :
               IF i \in DailyRows(daily_progress, u)
               THEN /\ daily_progress'[i].user_id = u
                    /\ daily_progress'[i].date = Today
                    /\ \A f \in DailyCounters :
                          daily_progress'[i][f] =
                              daily_progress[i][f] + (IF f = field THEN 1 ELSE 0)
               ELSE daily_progress'[i] = daily_progress[i]

\* C19: daily_progress never holds two rows of one (user, date); a step
\* that adds a user_words row (a first save) counts once under words_saved
\* and a step that raises the review_count of a row (a quiz result applied
\* to a saved word) counts once under words_reviewed, on the single row of
\* (user, today), which the first event of the day creates; no other step
\* changes daily_progress.
C19_OneDailyRowCountedOnce ==
    /\ [](\A i, j \in 1..Len(daily_progress) :
            ( /\ daily_progress[i].user_id = daily_progress[j].user_id
              /\ daily_progress[i].date = daily_progress[j].date ) => i = j)
    /\ [][ /\ Len(user_words') > Len(user_words)
               => CountedOnce(user_words'[Len(user_words')].user_id, "words_saved")
           /\ \A i \in 1..Len(user_words) :
                 user_words'[i].review_count > user_words[i].review_count
                 => CountedOnce(user_words[i].user_id, "words_reviewed")
           /\ daily_progress' # daily_progress
               => \/ Len(user_words') > Len(user_words)
                  \/ \E i \in 1..Len(user_words) :
                        user_words'[i].review_count > user_words[i].review_count ]_vars

\* two saves and a review were counted on the row of the first day, and
\* after midnight a review created the row of the second day
C19_Witness ==
    /\ presp.op = "quiz-result"
    /\ Len(daily_progress) = 2
    /\ daily_progress[1].date # daily_progress[2].date
    /\ daily_progress[1].words_saved = 2
    /\ daily_progress[1].words_reviewed = 1
    /\ daily_progress[2].words_saved = 0
    /\ daily_progress[2].words_reviewed = 1

(***************************************************************************)
(* Properties of the population script, checked under SpecPopulate.        *)
(***************************************************************************)
\* C22: with both providers configured, the attempt that follows a failed
\* attempt of a batch goes to the other provider, and a batch that is given
\* up has been tried with every configured provider.
C22_RetryWithOtherProvider ==
    Len(populate.providers) > 1 =>
        /\ \A i \in 1..(Len(populate.tried) - 1) : populate.tried[i + 1] # populate.tried[i]
        /\ populate.outcome = "gave up" => Range(populate.tried) = Range(populate.providers)


\* the sum of column field over the rows of T that belong to user u
RECURSIVE SumOver(_, _, _)
SumOver(T, u, field) ==
    IF T = <<>> THEN 0
    ELSE (IF Head(T).user_id = u THEN Head(T)[field] ELSE 0) + SumOver(Tail(T), u, field)

\* C29: for every user the words_reviewed of all their daily_progress rows
\* add up to the review_count of all their user_words rows; a quiz result
\* for a word the user has not saved is stored in quiz_results and counted
\* in neither.
C29_ReviewedSumsAgree ==
    /\ [](\A u \in UserIds :
            SumOver(daily_progress, u, "words_reviewed") = SumOver(user_words, u, "review_count"))
    /\ [][ ( quiz_results' # quiz_results /\ presp'.newBucket = "null" )
           => ( user_words' = user_words /\ daily_progress' = daily_progress ) ]_vars

\* three results are stored, one of them for a word that is not saved; the
\* other two were counted, one on each of two days
C29_Witness ==
    /\ AnswersSoFar = 3
    /\ \E u \in UserIds :
          /\ SumOver(user_words, u, "review_count") = 2
          /\ \E i, j \in 1..Len(daily_progress) :
                /\ i # j
                /\ daily_progress[i].user_id = u /\ daily_progress[i].words_reviewed = 1
                /\ daily_progress[j].user_id = u /\ daily_progress[j].words_reviewed = 1

(***************************************************************************)
(* Properties of the quiz screen, checked under SpecQuiz.                  *)
(***************************************************************************)
\* C26: when a load replaces a quiz by one with the same article, the word
\* counted correct for each blank is the same as before, whatever the order
\* of the ids in the two requests.
C26_CorrectWordFollowsArticle ==
    [][ ( /\ quiz'.last = "loaded"
          /\ quiz.blanks # <<>>
          /\ quiz'.article = quiz.article )
        => \A i \in 1..Len(quiz.blanks) :
              quiz'.blanks[i].correctWordId = quiz.blanks[i].correctWordId ]_vars

\* C27: before submission and between loads, a press on the filled blank at
\* position k raises no error, clears blank k and no other, and puts the
\* word of blank k at the end of availableWords.
C27_PressClearsThatBlank ==
    [][ \A k \in 1..Cardinality(QuizWords) :
          ( ~quiz.submitted /\ quiz.load = <<>> /\ PressBlank(k) )
          => ( /\ quiz'.last = "removed"
               /\ quiz'.blanks = [quiz.blanks EXCEPT ![k].wordId = Null]
               /\ quiz'.availableWords =
                     Append(quiz.availableWords, quiz.blanks[k].wordId) ) ]_vars

\* the blanks word w is assigned to
AssignedTo(w) == { i \in 1..Len(quiz.blanks) : quiz.blanks[i].wordId = w }
\* the places of w in availableWords
AvailableAt(w) == { i \in 1..Len(quiz.availableWords) : quiz.availableWords[i] = w }

====
